---- MODULE Spec2Model ----
(***************************************************************************)
(* Username reservation workflow of ts/state/ducks (the second half of     *)
(* src/ts/state/ducks/updates.ts): the reducer, the thunks that dispatch   *)
(* to it, and the promise middleware that turns a RESERVE_USERNAME or      *)
(* CONFIRM_USERNAME action into its _PENDING, _FULFILLED and _REJECTED     *)
(* actions.  The updates duck (the first half of the same file) follows    *)
(* it: its reducer, the snooze timer and the update IPC call.  Last come    *)
(* initializeAllJobQueues (src/ts/jobs/initializeAllJobQueues.ts) and the   *)
(* measurement loop of the conversation-open benchmark                      *)
(* (src/unnamed/part_000).                                                  *)
(***************************************************************************)
EXTENDS Integers, Sequences, FiniteSets, TLC

VARIABLES
  production,          \* getEnvironment() = Production: assertDev logs instead of throwing
  username,            \* the redux slice: [editState, usernameReservation]
  reserveAttempts,     \* one entry per AbortController created by reserveUsername()
  confirmAttempts,     \* one entry per doConfirmUsername() promise
  last,                \* the operation that ran last and the actions it dispatched
  overtaken,           \* SpecDebounce: controllers whose sleep saw a later reserveUsername()
  superseded,          \* SpecDebounce: controllers that slept and were stored at a valid one
  deleteAttempts,      \* one entry per run() promise of deleteUsername()
  toasts,              \* the toasts shown so far
  opened,              \* SpecEdit: the state openUsernameReservationModal() was called in
  updates,             \* the redux slice of the updates duck
  snoozeTimers,        \* one entry per setTimeout of snoozeUpdate()
  updateCalls,         \* one entry per startUpdate(): its IPC promise, and showActions then
  showActions,         \* SHOW_UPDATE_DIALOG actions reduced so far
  lastUpdate,          \* the updates operation that ran last, and the state it found
  jobs,                \* initializeAllJobQueues(): its position, its calls, the streams
  bench                \* the benchmark's measure(): its counts, runId, clicks and deltaList

updatesVars == <<updates, snoozeTimers, updateCalls, showActions, lastUpdate>>

usernameVars ==
  <<production, username, reserveAttempts, confirmAttempts, last, overtaken, superseded,
    deleteAttempts, toasts, opened>>

vars == <<usernameVars, updatesVars, jobs, bench>>

----------------------------------------------------------------------------
(* Bounds of the model *)

\* reserveUsername() calls with a valid nickname
MaxReserveCalls == 2

\* confirmUsername() calls that reach doConfirmUsername
MaxConfirmCalls == 1

\* reserveUsername() calls with a valid nickname when every nickname is typed
MaxTypedReserveCalls == 1

\* confirmUsername() calls that reach doConfirmUsername when it is called repeatedly
MaxRepeatedConfirmCalls == 2

\* deleteUsername() calls that reach doDeleteUsername
MaxDeleteCalls == 1

\* the largest RUN_COUNT the benchmark is run with
MaxRunCount == 3

\* the largest DISCARD_COUNT the benchmark is run with
MaxDiscardCount == 2

\* showUpdateDialog() actions dispatched by the updater
MaxShowUpdateDialogs == 2

\* snoozeUpdate() calls
MaxSnoozeUpdates == 1

\* startUpdate() calls
MaxStartUpdates == 1

----------------------------------------------------------------------------
(* Values *)

\* `undefined` for the string-valued optional fields
UNDEF == "undefined"

\* `undefined` for the optional abortController; controllers are numbered from 1
NoController == 0

UsernameReservationState == {"Closed", "Open", "Reserving", "Confirming"}

UsernameEditState == {"Editing", "ConfirmingDelete", "Deleting"}

UsernameReservationError ==
  {"General", "NotEnoughCharacters", "TooManyCharacters", "CheckCharacters",
   "CheckStartingCharacter", "UsernameNotAvailable"}

\* the two cases reducer distinguishes before missingCaseError
ReserveUsernameError == {"Unprocessable", "Conflict"}

\* me.username of the session's own conversation: absent, empty, or a username
MeUsernames == {UNDEF, "", "session"}

\* the `username` option of deleteUsername(), only for testing
DefaultUsernames == {UNDEF, "", "override"}

\* reservations the username service can hand out
Reservations == {"r1", "r2"}

\* characters a nickname is typed from: a letter, a digit, and one outside [0-9a-z_]
Chars == {"a", "1", "!"}

LowerOrUnderscore == {"a"}

DigitLowerOrUnderscore == {"a", "1"}

\* remote configuration values of util/Username
getMinNickname == 2

getMaxNickname == 3

MaxNicknameLen == getMaxNickname + 1

Nicknames == UNION {[1..n -> Chars] : n \in 0..MaxNicknameLen}

\* one nickname of each kind reserveUsername tells apart: empty, valid, invalid
SampleNicknames == {<<>>, <<"a", "1">>, <<"a", "!">>}

----------------------------------------------------------------------------
(* Actions of the slice.  Every action has the same shape; the fields an   *)
(* action type does not carry hold `undefined`.                            *)

NoPayload ==
  [defined |-> FALSE, ok |-> FALSE, reservation |-> UNDEF, error |-> UNDEF,
   editState |-> UNDEF, toastType |-> UNDEF]

Action(type, payload, abortController) ==
  [type |-> type, payload |-> payload, meta |-> [abortController |-> abortController]]

setUsernameEditState(editState) ==
  Action("username/SET_USERNAME_EDIT_STATE",
         [NoPayload EXCEPT !.defined = TRUE, !.editState = editState], NoController)

\* ./toast showToast(toastType)
showToast(toastType) ==
  Action("toast/SHOW_TOAST",
         [NoPayload EXCEPT !.defined = TRUE, !.toastType = toastType], NoController)

openUsernameReservationModal ==
  Action("username/OPEN_RESERVATION_MODAL", NoPayload, NoController)

closeUsernameReservationModal ==
  Action("username/CLOSE_RESERVATION_MODAL", NoPayload, NoController)

setUsernameReservationError(error) ==
  Action("username/SET_RESERVATION_ERROR",
         [NoPayload EXCEPT !.defined = TRUE, !.error = error], NoController)

\* what doReserveUsername resolves with
ReserveOk(reservation) ==
  [NoPayload EXCEPT !.defined = TRUE, !.ok = TRUE, !.reservation = reservation]

ReserveNotOk(error) ==
  [NoPayload EXCEPT !.defined = TRUE, !.ok = FALSE, !.error = error]

ReserveUsernameResults ==
  {ReserveOk(r) : r \in Reservations} \cup {ReserveNotOk(e) : e \in ReserveUsernameError}

----------------------------------------------------------------------------
(* Reducer *)

\* a usernameReservation object; an omitted optional field is `undefined`
Reservation(state, reservation, error, abortController) ==
  [state |-> state, reservation |-> reservation, error |-> error,
   abortController |-> abortController]

getEmptyState ==
  [editState |-> "Editing",
   usernameReservation |-> Reservation("Closed", UNDEF, UNDEF, NoController)]

\* assertDev(condition, ...) throws unless the build is a production build,
\* where it only logs.  A reducer that throws leaves the store's state as it was.
AssertDevThrows(condition) == ~production /\ ~condition

ReduceSetEditState(state, action) ==
  [state EXCEPT !.editState = action.payload.editState]

ReduceOpenModalKeepingController(state, action) ==
  [state EXCEPT !.usernameReservation =
     Reservation("Open", UNDEF, UNDEF, state.usernameReservation.abortController)]

ReduceOpenModal(state, action) ==
  [state EXCEPT !.usernameReservation = Reservation("Open", UNDEF, UNDEF, NoController)]

ReduceCloseModalKeepingController(state, action) ==
  [state EXCEPT !.usernameReservation =
     Reservation("Closed", UNDEF, UNDEF, state.usernameReservation.abortController)]

ReduceCloseModalToEmptyState(state, action) == getEmptyState

ReduceCloseModal(state, action) ==
  [state EXCEPT !.usernameReservation = Reservation("Closed", UNDEF, UNDEF, NoController)]

ReduceSetErrorKeepingReservation(state, action) ==
  [state EXCEPT !.usernameReservation.error = action.payload.error]

ReduceSetError(state, action) ==
  [state EXCEPT !.usernameReservation.error = action.payload.error,
                !.usernameReservation.reservation = UNDEF]

\* the controller RESERVE_USERNAME_PENDING aborts before it returns
NoAbortOnPending(state, action) == NoController

AbortedByReducer(state, action) ==
  IF action.type = "username/RESERVE_USERNAME_PENDING"
  THEN state.usernameReservation.abortController
  ELSE NoController

ReduceReservePendingKeepingController(state, action) ==
  [state EXCEPT !.usernameReservation =
     Reservation("Reserving", UNDEF, UNDEF,
                 IF state.usernameReservation.abortController # NoController
                 THEN state.usernameReservation.abortController
                 ELSE action.meta.abortController)]

ReduceReservePending(state, action) ==
  [state EXCEPT !.usernameReservation =
     Reservation("Reserving", UNDEF, UNDEF, action.meta.abortController)]

\* "New reservation is pending": meta.abortController !== usernameReservation.abortController
NeverStale(meta, usernameReservation) == FALSE

StaleReserveResponse(meta, usernameReservation) ==
  meta.abortController # usernameReservation.abortController

SwappedStateError(error) ==
  IF error = "Unprocessable" THEN "UsernameNotAvailable" ELSE "CheckCharacters"

ReserveStateError(error) ==
  IF error = "Unprocessable" THEN "CheckCharacters" ELSE "UsernameNotAvailable"

ReservedKeepingError(usernameReservation, reservation) ==
  Reservation("Open", reservation, usernameReservation.error, NoController)

Reserved(usernameReservation, reservation) ==
  Reservation("Open", reservation, UNDEF, NoController)

ReduceReserveFulfilled(state, action) ==
  LET usernameReservation == state.usernameReservation
      payload == action.payload
  IN  IF StaleReserveResponse(action.meta, usernameReservation) THEN state
      ELSE IF AssertDevThrows(usernameReservation.state = "Reserving") THEN state
      \* an undefined payload: assertDev throws, and so does payload.ok where it only logs
      ELSE IF ~payload.defined THEN state
      ELSE IF ~payload.ok
        THEN IF payload.error \in ReserveUsernameError
             THEN [state EXCEPT !.usernameReservation =
                     Reservation("Open", UNDEF, ReserveStateError(payload.error),
                                 NoController)]
             ELSE state    \* throw missingCaseError(error)
      ELSE [state EXCEPT !.usernameReservation =
              Reserved(usernameReservation, payload.reservation)]

ReduceReserveRejected(state, action) ==
  LET usernameReservation == state.usernameReservation
  IN  IF StaleReserveResponse(action.meta, usernameReservation) THEN state
      ELSE IF AssertDevThrows(usernameReservation.state = "Reserving") THEN state
      ELSE [state EXCEPT !.usernameReservation =
              Reservation("Open", UNDEF, "General", NoController)]

ReduceConfirmPending(state, action) ==
  IF AssertDevThrows(state.usernameReservation.state = "Open") THEN state
  ELSE [state EXCEPT !.usernameReservation =
          Reservation("Confirming", state.usernameReservation.reservation, UNDEF,
                      NoController)]

ReduceConfirmFulfilled(state, action) ==
  IF AssertDevThrows(state.usernameReservation.state = "Confirming") THEN state
  ELSE [state EXCEPT !.usernameReservation =
          Reservation("Closed", UNDEF, UNDEF, NoController)]

ReduceConfirmRejected(state, action) ==
  IF AssertDevThrows(state.usernameReservation.state = "Confirming") THEN state
  ELSE [state EXCEPT !.usernameReservation =
          Reservation("Open", UNDEF, "General", NoController)]

ReduceDeletePendingClosingModal(state, action) ==
  [getEmptyState EXCEPT !.editState = "Deleting"]

ReduceDeletePending(state, action) == [state EXCEPT !.editState = "Deleting"]

ReduceDeleteFulfilled(state, action) == [state EXCEPT !.editState = "Editing"]

\* assertDev(false, 'Should never reject'); return state
ReduceDeleteRejected(state, action) == state

reducer(state, action) ==
  CASE action.type = "username/SET_USERNAME_EDIT_STATE" -> ReduceSetEditState(state, action)
    [] action.type = "username/OPEN_RESERVATION_MODAL" -> ReduceOpenModal(state, action)
    [] action.type = "username/CLOSE_RESERVATION_MODAL" -> ReduceCloseModal(state, action)
    [] action.type = "username/SET_RESERVATION_ERROR" -> ReduceSetError(state, action)
    [] action.type = "username/RESERVE_USERNAME_PENDING" ->
         ReduceReservePending(state, action)
    [] action.type = "username/RESERVE_USERNAME_FULFILLED" ->
         ReduceReserveFulfilled(state, action)
    [] action.type = "username/RESERVE_USERNAME_REJECTED" ->
         ReduceReserveRejected(state, action)
    [] action.type = "username/CONFIRM_USERNAME_PENDING" ->
         ReduceConfirmPending(state, action)
    [] action.type = "username/CONFIRM_USERNAME_FULFILLED" ->
         ReduceConfirmFulfilled(state, action)
    [] action.type = "username/CONFIRM_USERNAME_REJECTED" ->
         ReduceConfirmRejected(state, action)
    [] action.type = "username/DELETE_USERNAME_PENDING" ->
         ReduceDeletePending(state, action)
    [] action.type = "username/DELETE_USERNAME_FULFILLED" ->
         ReduceDeleteFulfilled(state, action)
    [] action.type = "username/DELETE_USERNAME_REJECTED" ->
         ReduceDeleteRejected(state, action)
    [] OTHER -> state

----------------------------------------------------------------------------
(* Helpers *)

\* /^[0-9a-z_]+$/.test(nickname)
AllDigitLowerOrUnderscore(nickname) ==
  Len(nickname) > 0 /\ \A i \in 1..Len(nickname) : nickname[i] \in DigitLowerOrUnderscore

\* /^[a-z_]/.test(nickname)
StartsLowerOrUnderscore(nickname) ==
  Len(nickname) > 0 /\ nickname[1] \in LowerOrUnderscore

NicknameErrorSkippingCharacters(nickname) ==
  IF Len(nickname) = 0 THEN UNDEF
  ELSE IF Len(nickname) < getMinNickname THEN "NotEnoughCharacters"
  ELSE IF ~StartsLowerOrUnderscore(nickname) THEN "CheckStartingCharacter"
  ELSE IF Len(nickname) > getMaxNickname THEN "TooManyCharacters"
  ELSE UNDEF

NicknameErrorNoMaximum(nickname) ==
  IF Len(nickname) = 0 THEN UNDEF
  ELSE IF Len(nickname) < getMinNickname THEN "NotEnoughCharacters"
  ELSE IF ~AllDigitLowerOrUnderscore(nickname) THEN "CheckCharacters"
  ELSE IF ~StartsLowerOrUnderscore(nickname) THEN "CheckStartingCharacter"
  ELSE UNDEF

NicknameErrorLengthFirst(nickname) ==
  IF Len(nickname) = 0 THEN UNDEF
  ELSE IF Len(nickname) < getMinNickname THEN "NotEnoughCharacters"
  ELSE IF Len(nickname) > getMaxNickname THEN "TooManyCharacters"
  ELSE IF ~AllDigitLowerOrUnderscore(nickname) THEN "CheckCharacters"
  ELSE IF ~StartsLowerOrUnderscore(nickname) THEN "CheckStartingCharacter"
  ELSE UNDEF

getNicknameInvalidError(nickname) ==
  IF Len(nickname) = 0 THEN UNDEF
  ELSE IF Len(nickname) < getMinNickname THEN "NotEnoughCharacters"
  ELSE IF ~AllDigitLowerOrUnderscore(nickname) THEN "CheckCharacters"
  ELSE IF ~StartsLowerOrUnderscore(nickname) THEN "CheckStartingCharacter"
  ELSE IF Len(nickname) > getMaxNickname THEN "TooManyCharacters"
  ELSE UNDEF

\* util/Username: a nickname is valid when it starts with [a-z_], holds only
\* [0-9a-z_], and its length is within [getMinNickname, getMaxNickname]
isValidNickname(nickname) ==
  /\ StartsLowerOrUnderscore(nickname)
  /\ AllDigitLowerOrUnderscore(nickname)
  /\ Len(nickname) >= getMinNickname
  /\ Len(nickname) <= getMaxNickname

----------------------------------------------------------------------------
(* The updates duck: values and actions *)

\* DialogType: the three members the duck names, and one of the update dialogs
DialogType == {"None", "AutoUpdate", "Cannot_Update", "MacOS_Read_Only"}

\* an optional number that is absent
NoSize == -1

\* `{}`
NoOptions == [downloadSize |-> NoSize, downloadedSize |-> NoSize, version |-> UNDEF]

\* UpdateDialogOptionsType, every field optional: none, a version, a download
UpdateDialogOptions ==
  {NoOptions,
   [NoOptions EXCEPT !.version = "v1"],
   [NoOptions EXCEPT !.downloadSize = 2, !.downloadedSize = 1]}

\* an action of the updates duck; dialogType and otherState are its payload
UpdatesAction(type, dialogType, otherState) ==
  [type |-> type, payload |-> [dialogType |-> dialogType, otherState |-> otherState]]

dismissDialog == UpdatesAction("updates/DISMISS_DIALOG", UNDEF, NoOptions)

showUpdateDialog(dialogType, updateDialogOptions) ==
  UpdatesAction("updates/SHOW_UPDATE_DIALOG", dialogType, updateDialogOptions)

\* an action of another duck
OtherAction == UpdatesAction("other/ACTION", UNDEF, NoOptions)

----------------------------------------------------------------------------
(* The updates duck: reducer *)

getEmptyUpdatesState ==
  [dialogType |-> "None", didSnooze |-> FALSE, showEventsCount |-> 0,
   downloadSize |-> NoSize, downloadedSize |-> NoSize, version |-> UNDEF]

\* {...state, ...otherState}: the fields otherState holds replace the state's
SpreadOptions(state, otherState) ==
  [state EXCEPT
     !.downloadSize =
        IF otherState.downloadSize # NoSize THEN otherState.downloadSize ELSE @,
     !.downloadedSize =
        IF otherState.downloadedSize # NoSize THEN otherState.downloadedSize ELSE @,
     !.version = IF otherState.version # UNDEF THEN otherState.version ELSE @]

ReduceShowUpdateDialog(state, action) ==
  [SpreadOptions(state, action.payload.otherState) EXCEPT
     !.dialogType = action.payload.dialogType,
     !.showEventsCount = state.showEventsCount + 1]

ReduceSnoozeUpdateCounting(state, action) ==
  [state EXCEPT !.dialogType = "None", !.didSnooze = TRUE,
                !.showEventsCount = state.showEventsCount + 1]

ReduceSnoozeUpdate(state, action) ==
  [state EXCEPT !.dialogType = "None", !.didSnooze = TRUE]

ReduceStartUpdateKeepingSnooze(state, action) == [state EXCEPT !.dialogType = "None"]

ReduceStartUpdate(state, action) ==
  [state EXCEPT !.dialogType = "None", !.didSnooze = FALSE]

ReduceDismissDialogAlways(state, action) == [state EXCEPT !.dialogType = "None"]

ReduceDismissDialog(state, action) ==
  IF state.dialogType = "MacOS_Read_Only" THEN [state EXCEPT !.dialogType = "None"]
  ELSE state

ReduceUnsnoozeUpdateKeepingSnooze(state, action) ==
  [state EXCEPT !.dialogType = action.payload.dialogType]

ReduceUnsnoozeUpdate(state, action) ==
  [state EXCEPT !.dialogType = action.payload.dialogType, !.didSnooze = FALSE]

updatesReducer(state, action) ==
  CASE action.type = "updates/SHOW_UPDATE_DIALOG" -> ReduceShowUpdateDialog(state, action)
    [] action.type = "updates/SNOOZE_UPDATE" -> ReduceSnoozeUpdate(state, action)
    [] action.type = "updates/START_UPDATE" -> ReduceStartUpdate(state, action)
    [] action.type = "updates/DISMISS_DIALOG" -> ReduceDismissDialog(state, action)
    [] action.type = "updates/UNSNOOZE_UPDATE" -> ReduceUnsnoozeUpdate(state, action)
    [] OTHER -> state

----------------------------------------------------------------------------
(* Thunks: the actions each dispatches before it returns *)

NeverEmpty(nickname) == FALSE

\* !nickname
IsEmptyNickname(nickname) == Len(nickname) = 0

\* reserveUsername(nickname): abortController is the controller it creates
\* when the nickname is valid
reserveUsername(nickname, abortController) ==
  IF IsEmptyNickname(nickname) THEN <<>>
  ELSE IF ~isValidNickname(nickname)
    THEN LET error == getNicknameInvalidError(nickname)
         IN  IF error # UNDEF THEN <<setUsernameReservationError(error)>>
             \* assertDev(false, 'This should not happen')
             ELSE IF AssertDevThrows(FALSE) THEN <<>>
             ELSE <<setUsernameReservationError("General")>>
  ELSE <<Action("username/RESERVE_USERNAME_PENDING", NoPayload, abortController)>>

\* whether reserveUsername(nickname) reaches `new AbortController()` and run()
StartsReserve(nickname) == ~IsEmptyNickname(nickname) /\ isValidNickname(nickname)

confirmUsernameUnchecked(state) ==
  <<Action("username/CONFIRM_USERNAME_PENDING", NoPayload, NoController)>>

\* confirmUsername(): reads the reservation from the store
confirmUsername(state) ==
  IF state.usernameReservation.reservation = UNDEF
  THEN IF AssertDevThrows(FALSE) THEN <<>>
       ELSE <<setUsernameReservationError("General")>>
  ELSE <<Action("username/CONFIRM_USERNAME_PENDING", NoPayload, NoController)>>

\* whether confirmUsername() reaches doConfirmUsername(reservation)
StartsConfirm(state) == state.usernameReservation.reservation # UNDEF

UsernameToDeletePreferringDefault(meUsername, defaultUsername) ==
  IF defaultUsername # UNDEF THEN defaultUsername ELSE meUsername

\* me.username ?? defaultUsername
UsernameToDelete(meUsername, defaultUsername) ==
  IF meUsername # UNDEF THEN meUsername ELSE defaultUsername

\* whether deleteUsername() gets past `if (!username) return` to run()
StartsDelete(meUsername, defaultUsername) ==
  UsernameToDelete(meUsername, defaultUsername) \notin {UNDEF, ""}

\* deleteUsername(): me is read from the store, defaultUsername is its option
deleteUsername(meUsername, defaultUsername) ==
  IF ~StartsDelete(meUsername, defaultUsername) THEN <<>>
  ELSE <<Action("username/DELETE_USERNAME_PENDING", NoPayload, NoController)>>

----------------------------------------------------------------------------
(* The store *)

RECURSIVE DispatchAll(_, _)
DispatchAll(state, actions) ==
  IF actions = <<>> THEN state
  ELSE DispatchAll(reducer(state, Head(actions)), Tail(actions))

\* AbortController.abort(): the controller's signal becomes aborted
Abort(attempts, abortController) ==
  IF abortController = NoController THEN attempts
  ELSE [attempts EXCEPT ![abortController].aborted = TRUE]

\* the controller aborted while `actions` are reduced (the first action only:
\* no thunk dispatches RESERVE_USERNAME_PENDING after another action)
AbortedBy(state, actions) ==
  IF actions = <<>> THEN NoController ELSE AbortedByReducer(state, Head(actions))

\* an operation: its name and arguments, the controller the state held when it
\* began, and the actions it dispatched
Event(op, nickname, abortController, stored, dispatched) ==
  [op |-> op, nickname |-> nickname, abortController |-> abortController,
   stored |-> stored, dispatched |-> dispatched]

\* the state openUsernameReservationModal() was called in, kept while `taken`
\* until an operation other than the closeUsernameReservationModal() after it
Snapshot(recording, taken, state) ==
  [recording |-> recording, taken |-> taken, username |-> state]

\* run `op`, which dispatches `actions`
Run(op, nickname, abortController, actions) ==
  /\ username' = DispatchAll(username, actions)
  /\ last' = Event(op, nickname, abortController,
                   username.usernameReservation.abortController, actions)
  /\ opened' =
       IF ~opened.recording THEN opened
       ELSE IF op = "openUsernameReservationModal" THEN Snapshot(TRUE, TRUE, username)
       ELSE IF op = "closeUsernameReservationModal"
               /\ last.op = "openUsernameReservationModal"
         THEN opened
       ELSE Snapshot(TRUE, FALSE, getEmptyState)
  /\ UNCHANGED <<updatesVars, jobs, bench>>

\* an operation of the updates duck: its name, the timer or IPC call it belongs
\* to, the state it found, and the actions it dispatched
UpdateEvent(op, index, before, dispatched) ==
  [op |-> op, index |-> index, before |-> before, dispatched |-> dispatched]

\* initializeAllJobQueues() has not been called
JobsInit == jobs = [pc |-> 1, calls |-> <<>>, ended |-> {}]

\* measure() has not been called
BenchInit ==
  bench = [RUN_COUNT |-> 0, DISCARD_COUNT |-> 0, pc |-> "idle", runId |-> 0,
           clicks |-> <<>>, deltaList |-> <<>>, statsCalls |-> <<>>]

UpdatesInit ==
  /\ updates = getEmptyUpdatesState
  /\ snoozeTimers = <<>>
  /\ updateCalls = <<>>
  /\ showActions = 0
  /\ lastUpdate = UpdateEvent("init", 0, getEmptyUpdatesState, <<>>)

Init ==
  /\ UpdatesInit
  /\ JobsInit
  /\ BenchInit
  /\ production \in BOOLEAN
  /\ username = getEmptyState
  /\ reserveAttempts = <<>>
  /\ confirmAttempts = <<>>
  /\ last = Event("init", <<>>, NoController, NoController, <<>>)
  /\ overtaken = {}
  /\ superseded = {}
  /\ deleteAttempts = <<>>
  /\ toasts = <<>>
  /\ opened = Snapshot(FALSE, FALSE, getEmptyState)

OpenUsernameReservationModal ==
  /\ Run("openUsernameReservationModal", <<>>, NoController,
         <<openUsernameReservationModal>>)
  /\ UNCHANGED <<production, reserveAttempts, confirmAttempts, overtaken, superseded,
                 deleteAttempts, toasts>>

CloseUsernameReservationModal ==
  /\ Run("closeUsernameReservationModal", <<>>, NoController,
         <<closeUsernameReservationModal>>)
  /\ UNCHANGED <<production, reserveAttempts, confirmAttempts, overtaken, superseded,
                 deleteAttempts, toasts>>

SetUsernameReservationError ==
  \E error \in UsernameReservationError \cup {UNDEF} :
    /\ Run("setUsernameReservationError", <<>>, NoController,
           <<setUsernameReservationError(error)>>)
    /\ UNCHANGED <<production, reserveAttempts, confirmAttempts, overtaken, superseded,
                 deleteAttempts, toasts>>

ReserveUsernameFrom(nicknames, maxCalls, recordSleepers) ==
  \E nickname \in nicknames :
    LET abortController == Len(reserveAttempts) + 1
        actions == reserveUsername(nickname, abortController)
        Sleeping ==
          {c \in 1..Len(reserveAttempts) : reserveAttempts[c].phase = "sleeping"}
    IN  /\ StartsReserve(nickname) => Len(reserveAttempts) < maxCalls
        /\ Run("reserveUsername", nickname,
               IF StartsReserve(nickname) THEN abortController ELSE NoController,
               actions)
        /\ reserveAttempts' =
             IF StartsReserve(nickname)
             THEN Append(Abort(reserveAttempts, AbortedBy(username, actions)),
                         [phase |-> "sleeping", aborted |-> FALSE, called |-> FALSE])
             ELSE reserveAttempts
        /\ overtaken' = IF recordSleepers THEN overtaken \cup Sleeping ELSE overtaken
        /\ superseded' =
             IF recordSleepers /\ StartsReserve(nickname)
             THEN superseded
                    \cup (Sleeping \cap {username.usernameReservation.abortController})
             ELSE superseded
        /\ UNCHANGED <<production, confirmAttempts, deleteAttempts, toasts>>

ReserveUsername == ReserveUsernameFrom(SampleNicknames, MaxReserveCalls, FALSE)

\* the same, recording the attempts that were sleeping when it was called
ReserveUsernameOverSleepers ==
  ReserveUsernameFrom(SampleNicknames, MaxReserveCalls, TRUE)

\* reserveUsername() with any nickname of at most MaxNicknameLen characters
TypeNickname == ReserveUsernameFrom(Nicknames, MaxTypedReserveCalls, FALSE)

\* run(): sleep(delay, abortSignal) resolved, doReserveUsername is called
DoReserveUsername ==
  \E c \in 1..Len(reserveAttempts) :
    /\ reserveAttempts[c].phase = "sleeping"
    /\ ~reserveAttempts[c].aborted
    /\ reserveAttempts' =
         [reserveAttempts EXCEPT ![c].phase = "calling", ![c].called = TRUE]
    /\ Run("doReserveUsername", <<>>, c, <<>>)
    /\ UNCHANGED <<production, confirmAttempts, overtaken, superseded,
                   deleteAttempts, toasts>>

\* run(): sleep(delay, abortSignal) rejected, run() resolves with undefined
ReserveAborted ==
  \E c \in 1..Len(reserveAttempts) :
    /\ reserveAttempts[c].phase = "sleeping"
    /\ reserveAttempts[c].aborted
    /\ reserveAttempts' = [reserveAttempts EXCEPT ![c].phase = "done"]
    /\ Run("reserveSettled", <<>>, c,
           <<Action("username/RESERVE_USERNAME_FULFILLED", NoPayload, c)>>)
    /\ UNCHANGED <<production, confirmAttempts, overtaken, superseded,
                   deleteAttempts, toasts>>

\* doReserveUsername resolved
ReserveFulfilled ==
  \E c \in 1..Len(reserveAttempts), result \in ReserveUsernameResults :
    /\ reserveAttempts[c].phase = "calling"
    /\ reserveAttempts' = [reserveAttempts EXCEPT ![c].phase = "done"]
    /\ Run("reserveSettled", <<>>, c,
           <<Action("username/RESERVE_USERNAME_FULFILLED", result, c)>>)
    /\ UNCHANGED <<production, confirmAttempts, overtaken, superseded,
                   deleteAttempts, toasts>>

\* doReserveUsername rejected
ReserveRejected ==
  \E c \in 1..Len(reserveAttempts) :
    /\ reserveAttempts[c].phase = "calling"
    /\ reserveAttempts' = [reserveAttempts EXCEPT ![c].phase = "done"]
    /\ Run("reserveSettled", <<>>, c,
           <<Action("username/RESERVE_USERNAME_REJECTED", NoPayload, c)>>)
    /\ UNCHANGED <<production, confirmAttempts, overtaken, superseded,
                   deleteAttempts, toasts>>

\* the middleware dispatches _PENDING before it subscribes to the promise: when
\* the reducer throws on CONFIRM_USERNAME_PENDING no later action follows
ConfirmPendingThrows(state) ==
  AssertDevThrows(state.usernameReservation.state = "Open")

ConfirmUsernameUpTo(maxCalls) ==
  LET actions == confirmUsername(username)
  IN  /\ StartsConfirm(username) => Len(confirmAttempts) < maxCalls
      /\ Run("confirmUsername", <<>>, NoController, actions)
      /\ confirmAttempts' =
           IF StartsConfirm(username)
           THEN Append(confirmAttempts,
                       [phase |-> IF ConfirmPendingThrows(username)
                                  THEN "dropped" ELSE "calling",
                        reservation |-> username.usernameReservation.reservation])
           ELSE confirmAttempts
      /\ UNCHANGED <<production, reserveAttempts, overtaken, superseded,
                   deleteAttempts, toasts>>

ConfirmUsername == ConfirmUsernameUpTo(MaxConfirmCalls)

\* confirmUsername(), callable again while a confirm is outstanding
ConfirmUsernameAgain == ConfirmUsernameUpTo(MaxRepeatedConfirmCalls)

\* reserveUsername() with at most MaxTypedReserveCalls valid nicknames
ReserveUsernameOnce == ReserveUsernameFrom(SampleNicknames, MaxTypedReserveCalls, FALSE)

ConfirmFulfilled ==
  \E k \in 1..Len(confirmAttempts) :
    /\ confirmAttempts[k].phase = "calling"
    /\ confirmAttempts' = [confirmAttempts EXCEPT ![k].phase = "done"]
    /\ Run("confirmSettled", <<>>, NoController,
           <<Action("username/CONFIRM_USERNAME_FULFILLED", NoPayload, NoController)>>)
    /\ UNCHANGED <<production, reserveAttempts, overtaken, superseded,
                   deleteAttempts, toasts>>

ConfirmRejected ==
  \E k \in 1..Len(confirmAttempts) :
    /\ confirmAttempts[k].phase = "calling"
    /\ confirmAttempts' = [confirmAttempts EXCEPT ![k].phase = "done"]
    /\ Run("confirmSettled", <<>>, NoController,
           <<Action("username/CONFIRM_USERNAME_REJECTED", NoPayload, NoController)>>)
    /\ UNCHANGED <<production, reserveAttempts, overtaken, superseded,
                   deleteAttempts, toasts>>

SetUsernameEditState ==
  \E editState \in UsernameEditState :
    /\ Run("setUsernameEditState", <<>>, NoController, <<setUsernameEditState(editState)>>)
    /\ UNCHANGED <<production, reserveAttempts, confirmAttempts, overtaken, superseded,
                   deleteAttempts, toasts>>

\* deleteUsername(): run() calls doDeleteUsername(username) before the
\* middleware dispatches DELETE_USERNAME_PENDING
DeleteUsername ==
  \E meUsername \in MeUsernames, defaultUsername \in DefaultUsernames :
    /\ StartsDelete(meUsername, defaultUsername) => Len(deleteAttempts) < MaxDeleteCalls
    /\ Run("deleteUsername", <<meUsername, defaultUsername>>, NoController,
           deleteUsername(meUsername, defaultUsername))
    /\ deleteAttempts' =
         IF StartsDelete(meUsername, defaultUsername)
         THEN Append(deleteAttempts,
                     [phase |-> "calling", failed |-> FALSE,
                      username |-> UsernameToDelete(meUsername, defaultUsername)])
         ELSE deleteAttempts
    /\ UNCHANGED <<production, reserveAttempts, confirmAttempts, overtaken, superseded,
                   toasts>>

\* doDeleteUsername rejected: the catch block of run() shows the toast
DeleteFailed ==
  \E d \in 1..Len(deleteAttempts) :
    /\ deleteAttempts[d].phase = "calling"
    /\ deleteAttempts' =
         [deleteAttempts EXCEPT ![d].phase = "caught", ![d].failed = TRUE]
    /\ Run("deleteFailed", <<>>, NoController, <<showToast("FailedToDeleteUsername")>>)
    /\ toasts' = Append(toasts, "FailedToDeleteUsername")
    /\ UNCHANGED <<production, reserveAttempts, confirmAttempts, overtaken, superseded>>

\* run() resolved, after doDeleteUsername resolved or after the catch block
DeleteFulfilled ==
  \E d \in 1..Len(deleteAttempts) :
    /\ deleteAttempts[d].phase \in {"calling", "caught"}
    /\ deleteAttempts' = [deleteAttempts EXCEPT ![d].phase = "done"]
    /\ Run("deleteSettled", <<>>, NoController,
           <<Action("username/DELETE_USERNAME_FULFILLED", NoPayload, NoController)>>)
    /\ UNCHANGED <<production, reserveAttempts, confirmAttempts, overtaken, superseded,
                   toasts>>

Next ==
  \/ OpenUsernameReservationModal
  \/ CloseUsernameReservationModal
  \/ SetUsernameReservationError
  \/ ReserveUsername
  \/ DoReserveUsername
  \/ ReserveAborted
  \/ ReserveFulfilled
  \/ ReserveRejected
  \/ ConfirmUsername
  \/ ConfirmFulfilled
  \/ ConfirmRejected

Spec == Init /\ [][Next]_vars

\* the reservation modal with every nickname typed into it
NextNicknames ==
  \/ OpenUsernameReservationModal
  \/ CloseUsernameReservationModal
  \/ TypeNickname
  \/ DoReserveUsername
  \/ ReserveFulfilled
  \/ ReserveRejected

SpecNicknames == Init /\ [][NextNicknames]_vars

\* the reservation modal, recording for every reserve attempt the reserveUsername()
\* calls issued during its debounce delay
NextDebounce ==
  \/ OpenUsernameReservationModal
  \/ CloseUsernameReservationModal
  \/ SetUsernameReservationError
  \/ ReserveUsernameOverSleepers
  \/ DoReserveUsername
  \/ ReserveAborted
  \/ ReserveFulfilled
  \/ ReserveRejected

SpecDebounce == Init /\ [][NextDebounce]_vars

\* the reservation modal, with confirmUsername() callable repeatedly
NextConfirm ==
  \/ OpenUsernameReservationModal
  \/ CloseUsernameReservationModal
  \/ SetUsernameReservationError
  \/ ReserveUsernameOnce
  \/ DoReserveUsername
  \/ ReserveFulfilled
  \/ ReserveRejected
  \/ ConfirmUsernameAgain
  \/ ConfirmFulfilled
  \/ ConfirmRejected

SpecConfirm == Init /\ [][NextConfirm]_vars

\* the username editor: the reservation modal together with the edit state,
\* recording the state each openUsernameReservationModal() found
InitEdit ==
  /\ UpdatesInit
  /\ JobsInit
  /\ BenchInit
  /\ production \in BOOLEAN
  /\ username = getEmptyState
  /\ reserveAttempts = <<>>
  /\ confirmAttempts = <<>>
  /\ last = Event("init", <<>>, NoController, NoController, <<>>)
  /\ overtaken = {}
  /\ superseded = {}
  /\ deleteAttempts = <<>>
  /\ toasts = <<>>
  /\ opened = Snapshot(TRUE, FALSE, getEmptyState)

NextEdit ==
  \/ OpenUsernameReservationModal
  \/ CloseUsernameReservationModal
  \/ ReserveUsernameOnce
  \/ DoReserveUsername
  \/ ReserveFulfilled
  \/ ReserveRejected
  \/ ConfirmUsername
  \/ ConfirmFulfilled
  \/ ConfirmRejected
  \/ SetUsernameEditState

SpecEdit == InitEdit /\ [][NextEdit]_vars

\* the username editor with deleteUsername()
NextDelete ==
  \/ OpenUsernameReservationModal
  \/ CloseUsernameReservationModal
  \/ ReserveUsernameOnce
  \/ DoReserveUsername
  \/ ReserveFulfilled
  \/ ReserveRejected
  \/ SetUsernameEditState
  \/ DeleteUsername
  \/ DeleteFailed
  \/ DeleteFulfilled

SpecDelete == Init /\ [][NextDelete]_vars

\* every remote reserve call, and the debounce delay before it, eventually ends
ReserveFairness ==
  /\ WF_vars(DoReserveUsername)
  /\ WF_vars(ReserveAborted)
  /\ WF_vars(ReserveFulfilled \/ ReserveRejected)

SpecLive == Init /\ [][Next]_vars /\ ReserveFairness

----------------------------------------------------------------------------
(* The updates duck: thunks, timers and the update IPC *)

\* snoozeUpdate(): the SNOOZE_UPDATE it dispatches after setTimeout
snoozeUpdate == <<UpdatesAction("updates/SNOOZE_UPDATE", UNDEF, NoOptions)>>

\* the callback snoozeUpdate() hands to setTimeout, over the dialogType it read
Unsnooze(dialogType) == <<UpdatesAction("updates/UNSNOOZE_UPDATE", dialogType, NoOptions)>>

\* startUpdate(): the START_UPDATE it dispatches before awaiting the IPC call
startUpdate == <<UpdatesAction("updates/START_UPDATE", UNDEF, NoOptions)>>

\* startUpdate(): the catch block
StartUpdateCaught == <<showUpdateDialog("Cannot_Update", NoOptions)>>

RECURSIVE DispatchAllUpdates(_, _)
DispatchAllUpdates(state, actions) ==
  IF actions = <<>> THEN state
  ELSE DispatchAllUpdates(updatesReducer(state, Head(actions)), Tail(actions))

RECURSIVE CountShows(_)
CountShows(actions) ==
  IF actions = <<>> THEN 0
  ELSE (IF Head(actions).type = "updates/SHOW_UPDATE_DIALOG" THEN 1 ELSE 0)
         + CountShows(Tail(actions))

\* run `op`, which dispatches `actions` to the updates reducer
RunUpdates(op, index, actions) ==
  /\ updates' = DispatchAllUpdates(updates, actions)
  /\ showActions' = showActions + CountShows(actions)
  /\ lastUpdate' = UpdateEvent(op, index, updates, actions)
  /\ UNCHANGED <<usernameVars, jobs, bench>>

DismissDialog ==
  /\ RunUpdates("dismissDialog", 0, <<dismissDialog>>)
  /\ UNCHANGED <<snoozeTimers, updateCalls>>

ShowUpdateDialog ==
  \E dialogType \in DialogType, updateDialogOptions \in UpdateDialogOptions :
    /\ showActions < MaxShowUpdateDialogs
    /\ RunUpdates("showUpdateDialog", 0, <<showUpdateDialog(dialogType, updateDialogOptions)>>)
    /\ UNCHANGED <<snoozeTimers, updateCalls>>

\* an action of another duck reaches the reducer
DispatchOtherAction ==
  /\ RunUpdates("otherAction", 0, <<OtherAction>>)
  /\ UNCHANGED <<snoozeTimers, updateCalls>>

\* snoozeUpdate(): reads dialogType, calls setTimeout(..., DAY), dispatches SNOOZE_UPDATE
SnoozeUpdate ==
  /\ Len(snoozeTimers) < MaxSnoozeUpdates
  /\ snoozeTimers' =
       Append(snoozeTimers,
              [dialogType |-> updates.dialogType, delay |-> "DAY", phase |-> "pending"])
  /\ RunUpdates("snoozeUpdate", Len(snoozeTimers) + 1, snoozeUpdate)
  /\ UNCHANGED updateCalls

\* a timer of snoozeUpdate() fires
UnsnoozeUpdate ==
  \E t \in 1..Len(snoozeTimers) :
    /\ snoozeTimers[t].phase = "pending"
    /\ snoozeTimers' = [snoozeTimers EXCEPT ![t].phase = "fired"]
    /\ RunUpdates("unsnoozeUpdate", t, Unsnooze(snoozeTimers[t].dialogType))
    /\ UNCHANGED updateCalls

\* startUpdate(): dispatches START_UPDATE, then calls updateIpc.startUpdate()
StartUpdate ==
  /\ Len(updateCalls) < MaxStartUpdates
  /\ updateCalls' = Append(updateCalls, [phase |-> "calling", shows |-> showActions])
  /\ RunUpdates("startUpdate", Len(updateCalls) + 1, startUpdate)
  /\ UNCHANGED snoozeTimers

\* updateIpc.startUpdate() resolved
StartUpdateResolved ==
  \E u \in 1..Len(updateCalls) :
    /\ updateCalls[u].phase = "calling"
    /\ updateCalls' = [updateCalls EXCEPT ![u].phase = "resolved"]
    /\ RunUpdates("startUpdateResolved", u, <<>>)
    /\ UNCHANGED snoozeTimers

\* updateIpc.startUpdate() rejected
StartUpdateRejected ==
  \E u \in 1..Len(updateCalls) :
    /\ updateCalls[u].phase = "calling"
    /\ updateCalls' = [updateCalls EXCEPT ![u].phase = "rejected"]
    /\ RunUpdates("startUpdateRejected", u, StartUpdateCaught)
    /\ UNCHANGED snoozeTimers

NextUpdates ==
  \/ DismissDialog
  \/ ShowUpdateDialog
  \/ DispatchOtherAction
  \/ SnoozeUpdate
  \/ UnsnoozeUpdate
  \/ StartUpdate
  \/ StartUpdateResolved
  \/ StartUpdateRejected

\* the updates duck has no assertDev: one build is enough
InitUpdates == Init /\ production

SpecUpdates == InitUpdates /\ [][NextUpdates]_vars

----------------------------------------------------------------------------
(* initializeAllJobQueues *)

StatementsInitializingLast ==
  <<[call |-> "streamJobs", queue |-> "conversationJobQueue"],
    [call |-> "streamJobs", queue |-> "singleProtoJobQueue"],
    [call |-> "streamJobs", queue |-> "deliveryReceiptsJobQueue"],
    [call |-> "streamJobs", queue |-> "readReceiptsJobQueue"],
    [call |-> "streamJobs", queue |-> "viewedReceiptsJobQueue"],
    [call |-> "streamJobs", queue |-> "readSyncJobQueue"],
    [call |-> "streamJobs", queue |-> "viewSyncJobQueue"],
    [call |-> "streamJobs", queue |-> "viewOnceOpenJobQueue"],
    [call |-> "streamJobs", queue |-> "removeStorageKeyJobQueue"],
    [call |-> "streamJobs", queue |-> "reportSpamJobQueue"],
    [call |-> "initialize", queue |-> "reportSpamJobQueue"]>>

\* the statements of initializeAllJobQueues(), in order
Statements ==
  <<[call |-> "initialize", queue |-> "reportSpamJobQueue"],
    [call |-> "streamJobs", queue |-> "conversationJobQueue"],
    [call |-> "streamJobs", queue |-> "singleProtoJobQueue"],
    [call |-> "streamJobs", queue |-> "deliveryReceiptsJobQueue"],
    [call |-> "streamJobs", queue |-> "readReceiptsJobQueue"],
    [call |-> "streamJobs", queue |-> "viewedReceiptsJobQueue"],
    [call |-> "streamJobs", queue |-> "readSyncJobQueue"],
    [call |-> "streamJobs", queue |-> "viewSyncJobQueue"],
    [call |-> "streamJobs", queue |-> "viewOnceOpenJobQueue"],
    [call |-> "streamJobs", queue |-> "removeStorageKeyJobQueue"],
    [call |-> "streamJobs", queue |-> "reportSpamJobQueue"]>>

\* the job queues imported by initializeAllJobQueues.ts
JobQueues ==
  {"conversationJobQueue", "deliveryReceiptsJobQueue", "readReceiptsJobQueue",
   "readSyncJobQueue", "removeStorageKeyJobQueue", "reportSpamJobQueue",
   "singleProtoJobQueue", "viewOnceOpenJobQueue", "viewSyncJobQueue",
   "viewedReceiptsJobQueue"}

\* the queues whose streamJobs() has been called
Streaming ==
  {jobs.calls[i].queue : i \in {j \in 1..Len(jobs.calls) : jobs.calls[j].call = "streamJobs"}}

\* the next statement of initializeAllJobQueues(): drop() does not await the
\* promise streamJobs() returns
InitializeAllJobQueuesStep ==
  /\ jobs.pc <= Len(Statements)
  /\ jobs' = [jobs EXCEPT !.pc = @ + 1, !.calls = Append(@, Statements[jobs.pc])]
  /\ UNCHANGED <<usernameVars, updatesVars, bench>>

\* the promise of a streamJobs() call settles
StreamJobsEnds ==
  \E queue \in Streaming \ jobs.ended :
    /\ jobs' = [jobs EXCEPT !.ended = @ \cup {queue}]
    /\ UNCHANGED <<usernameVars, updatesVars, bench>>

NextJobs ==
  \/ InitializeAllJobQueuesStep
  \/ StreamJobsEnds

\* no assertDev is involved: one build is enough
InitJobs == Init /\ production

\* initializeAllJobQueues() is synchronous: once called it runs to its end,
\* while no stream has to end
SpecJobs == InitJobs /\ [][NextJobs]_vars /\ WF_vars(InitializeAllJobQueuesStep)

----------------------------------------------------------------------------
(* The benchmark's measure() *)

\* the timings app.waitForConversationOpen() can report
Deltas == {7, 9}

\* runId % 2 === 0 ? first : second
ContactOf(runId) == IF runId % 2 = 0 THEN "first" ELSE "second"

IsRecordedAfterDiscardCount(runId, discardCount) == runId > discardCount

\* runId >= DISCARD_COUNT
IsRecorded(runId, discardCount) == runId >= discardCount

\* measure() is called with the counts the fixtures export
InitBenchmark ==
  /\ UpdatesInit
  /\ JobsInit
  /\ production = TRUE
  /\ username = getEmptyState
  /\ reserveAttempts = <<>>
  /\ confirmAttempts = <<>>
  /\ last = Event("init", <<>>, NoController, NoController, <<>>)
  /\ overtaken = {}
  /\ superseded = {}
  /\ deleteAttempts = <<>>
  /\ toasts = <<>>
  /\ opened = Snapshot(FALSE, FALSE, getEmptyState)
  /\ \E runCount \in 0..MaxRunCount, discardCount \in 0..MaxDiscardCount :
       bench = [RUN_COUNT |-> runCount, DISCARD_COUNT |-> discardCount, pc |-> "loop",
                runId |-> 0, clicks |-> <<>>, deltaList |-> <<>>, statsCalls |-> <<>>]

\* the loop condition holds: openConvo(...) clicks the contact's item
OpenConvo ==
  /\ bench.pc = "loop"
  /\ bench.runId < bench.RUN_COUNT + bench.DISCARD_COUNT
  /\ bench' = [bench EXCEPT !.pc = "waiting", !.clicks = Append(@, ContactOf(bench.runId))]
  /\ UNCHANGED <<usernameVars, updatesVars, jobs>>

\* app.waitForConversationOpen() resolved with a delta; after the render delay
\* the delta is kept or discarded and runId += 1
ConversationOpened ==
  \E delta \in Deltas :
    /\ bench.pc = "waiting"
    /\ bench' = [bench EXCEPT
                   !.pc = "loop",
                   !.deltaList = IF IsRecorded(bench.runId, bench.DISCARD_COUNT)
                                 THEN Append(@, delta) ELSE @,
                   !.runId = @ + 1]
    /\ UNCHANGED <<usernameVars, updatesVars, jobs>>

\* the click or app.waitForConversationOpen() rejected: measure() rejects
MeasureFails ==
  /\ bench.pc = "waiting"
  /\ bench' = [bench EXCEPT !.pc = "failed"]
  /\ UNCHANGED <<usernameVars, updatesVars, jobs>>

\* the loop condition fails: stats(deltaList, [99, 99.8])
Stats ==
  /\ bench.pc = "loop"
  /\ ~(bench.runId < bench.RUN_COUNT + bench.DISCARD_COUNT)
  /\ bench' = [bench EXCEPT !.pc = "done", !.statsCalls = Append(@, bench.deltaList)]
  /\ UNCHANGED <<usernameVars, updatesVars, jobs>>

NextBenchmark ==
  \/ OpenConvo
  \/ ConversationOpened
  \/ MeasureFails
  \/ Stats

SpecBenchmark == InitBenchmark /\ [][NextBenchmark]_vars

----------------------------------------------------------------------------
(* Properties *)

\* the action the middleware dispatched when a reserve attempt settled
Settled(event) == Head(event.dispatched)

\* a reserve attempt has just settled (RESERVE_USERNAME_FULFILLED or _REJECTED)
ReserveSettledStep == last'.op = "reserveSettled"

\* the settled attempt's controller is the one the state held when it settled
AuthoritativeStep ==
  /\ ReserveSettledStep
  /\ last'.abortController = username.usernameReservation.abortController

\* C1: a RESERVE_USERNAME_FULFILLED or _REJECTED action whose meta.abortController
\* is not the controller stored in usernameReservation leaves the whole username
\* state as it was, whatever its payload.
C1_StaleResponseIgnored ==
  [][(ReserveSettledStep
        /\ last'.abortController # username.usernameReservation.abortController)
      => username' = username]_vars

\* a response with a payload arrived for a controller other than the stored one
\* while a newer attempt was pending
C1_Witness ==
  /\ last.op = "reserveSettled"
  /\ Settled(last).payload.defined
  /\ last.stored # NoController
  /\ last.stored # last.abortController
  /\ username.usernameReservation.state = "Reserving"
  /\ username.usernameReservation.abortController = last.stored

\* what an authoritative response writes to usernameReservation
WrittenBy(action) ==
  IF action.type = "username/RESERVE_USERNAME_REJECTED"
    THEN Reservation("Open", UNDEF, "General", NoController)
  ELSE IF action.payload.ok
    THEN Reservation("Open", action.payload.reservation, UNDEF, NoController)
  ELSE Reservation("Open", UNDEF,
                   IF action.payload.error = "Unprocessable"
                   THEN "CheckCharacters" ELSE "UsernameNotAvailable",
                   NoController)

\* C2: once a later reserveUsername() with a valid nickname has been issued, the
\* response of an earlier attempt never changes the state, in whatever order the
\* attempts complete; a reserve response that does change the state belongs to the
\* latest attempt and writes that attempt's result.
C2_OnlyLatestReserveWritten ==
  [][ReserveSettledStep =>
       /\ last'.abortController < Len(reserveAttempts) => username' = username
       /\ username' # username =>
            /\ last'.abortController = Len(reserveAttempts)
            /\ username'.usernameReservation = WrittenBy(Settled(last'))
            /\ username'.editState = username.editState]_vars

\* the first attempt's reservation arrives after the second attempt's result was
\* written, and the state still shows the second attempt's reservation
C2_Witness ==
  /\ last.op = "reserveSettled"
  /\ last.abortController = 1
  /\ Len(reserveAttempts) >= 2
  /\ reserveAttempts[2].phase = "done"
  /\ Settled(last).payload.ok
  /\ username.usernameReservation.state = "Open"
  /\ username.usernameReservation.reservation \in Reservations
  /\ username.usernameReservation.reservation # Settled(last).payload.reservation

\* C3 as stated: the remote reserve call of an attempt is never issued once any
\* later reserveUsername() call was made during the attempt's debounce delay.
C3_Original ==
  \A c \in overtaken : ~reserveAttempts[c].called

\* C3, amended: the remote reserve call of an attempt is never issued once a later
\* reserveUsername() with a valid nickname was made during the attempt's debounce
\* delay while the attempt's controller was still the one stored in the state.
C3_SupersededNeverCalled ==
  \A c \in superseded : ~reserveAttempts[c].called /\ reserveAttempts[c].aborted

\* a superseded attempt has run to its end without calling the service, and the
\* attempt that superseded it has issued its own call
C3_Witness ==
  \E c \in superseded :
    /\ reserveAttempts[c].phase = "done"
    /\ ~reserveAttempts[c].called
    /\ \E d \in (c + 1)..Len(reserveAttempts) : reserveAttempts[d].called

\* the attempt that settled last was the one the state was waiting for
Authoritative(event) ==
  event.op = "reserveSettled" /\ event.stored = event.abortController

\* C4: reservation and error are never both defined; reserveUsername() with a
\* valid nickname puts the state in Reserving, and the response of the attempt the
\* state is waiting for takes it from Reserving to Open with exactly one of a
\* reservation and an error.
C4_ReservationOrError ==
  /\ [](~(username.usernameReservation.reservation # UNDEF
          /\ username.usernameReservation.error # UNDEF))
  /\ [][/\ (last'.op = "reserveUsername" /\ StartsReserve(last'.nickname))
             => username'.usernameReservation.state = "Reserving"
        /\ AuthoritativeStep =>
             /\ username.usernameReservation.state = "Reserving"
             /\ username'.usernameReservation.state = "Open"
             /\ (username'.usernameReservation.reservation # UNDEF)
                  # (username'.usernameReservation.error # UNDEF)]_vars

\* the awaited attempt failed and the state is Open with an error and no reservation
C4_Witness ==
  /\ Authoritative(last)
  /\ Settled(last).payload.defined
  /\ ~Settled(last).payload.ok
  /\ username.usernameReservation.state = "Open"
  /\ username.usernameReservation.error # UNDEF
  /\ username.usernameReservation.reservation = UNDEF

\* C5: the failure of the awaited reserve attempt leaves Open with the mapped error
\* and neither reservation nor controller: Unprocessable gives CheckCharacters,
\* Conflict gives UsernameNotAvailable, a rejected call gives General.
C5_FailureMapping ==
  [][AuthoritativeStep =>
       LET action == Settled(last')
       IN  /\ action.type = "username/RESERVE_USERNAME_REJECTED" =>
                username'.usernameReservation =
                  Reservation("Open", UNDEF, "General", NoController)
           /\ (action.payload.defined /\ ~action.payload.ok
                 /\ action.payload.error = "Unprocessable") =>
                username'.usernameReservation =
                  Reservation("Open", UNDEF, "CheckCharacters", NoController)
           /\ (action.payload.defined /\ ~action.payload.ok
                 /\ action.payload.error = "Conflict") =>
                username'.usernameReservation =
                  Reservation("Open", UNDEF, "UsernameNotAvailable", NoController)]_vars

\* the awaited attempt was answered with Conflict
C5_Witness ==
  /\ Authoritative(last)
  /\ Settled(last).payload.error = "Conflict"
  /\ username.usernameReservation =
       Reservation("Open", UNDEF, "UsernameNotAvailable", NoController)

\* C6: the success of the awaited reserve attempt leaves Open holding exactly the
\* reservation the service returned, with no error (an error set while the state
\* was Reserving is gone) and no controller.
C6_SuccessStoresReservation ==
  [][(AuthoritativeStep /\ Settled(last').payload.ok) =>
       /\ username'.usernameReservation =
            Reservation("Open", Settled(last').payload.reservation, UNDEF, NoController)
       /\ username'.editState = username.editState]_vars

\* the awaited attempt succeeded and its reservation is in the state
C6_Witness ==
  /\ Authoritative(last)
  /\ Settled(last).payload.ok
  /\ username.usernameReservation.state = "Open"
  /\ username.usernameReservation.reservation = Settled(last).payload.reservation
  /\ username.usernameReservation.error = UNDEF

\* reserveUsername(nickname) has just returned
ReserveUsernameStep == last'.op = "reserveUsername"

\* some character of the nickname is outside [0-9a-z_]
HasForeignCharacter(nickname) ==
  \E i \in 1..Len(nickname) : nickname[i] \notin {"a", "1"}

\* the first character of the nickname is outside [a-z_]
HasForeignStart(nickname) == Len(nickname) > 0 /\ nickname[1] # "a"

\* the step set `error` and neither dispatched RESERVE_USERNAME nor started an attempt
OnlySetsError(error) ==
  /\ last'.dispatched = <<setUsernameReservationError(error)>>
  /\ username'.usernameReservation.error = error
  /\ username'.usernameReservation.reservation = UNDEF
  /\ reserveAttempts' = reserveAttempts

\* C7 as stated: reserveUsername() with any nickname holding a character outside
\* [0-9a-z_] sets CheckCharacters and starts no reserve attempt.
C7_Original ==
  [][(ReserveUsernameStep /\ HasForeignCharacter(last'.nickname))
       => OnlySetsError("CheckCharacters")]_vars

\* C7, amended: reserveUsername() with a nickname of at least the minimum length
\* holding a character outside [0-9a-z_] sets CheckCharacters and starts no
\* reserve attempt.
C7_ForeignCharacterRejected ==
  [][(ReserveUsernameStep /\ HasForeignCharacter(last'.nickname)
        /\ Len(last'.nickname) >= getMinNickname)
       => OnlySetsError("CheckCharacters")]_vars

\* a nickname of a valid length with a foreign character was refused
C7_Witness ==
  /\ last.op = "reserveUsername"
  /\ HasForeignCharacter(last.nickname)
  /\ Len(last.nickname) >= getMinNickname
  /\ Len(last.nickname) <= getMaxNickname
  /\ username.usernameReservation.error = "CheckCharacters"
  /\ reserveAttempts = <<>>

\* C8: reserveUsername() with a non-empty nickname shorter than the minimum sets
\* NotEnoughCharacters; with a nickname longer than the maximum that holds only
\* [0-9a-z_] and starts with [a-z_] it sets TooManyCharacters; neither dispatches
\* RESERVE_USERNAME nor starts a reserve attempt.
C8_LengthErrors ==
  [][ReserveUsernameStep =>
       /\ (0 < Len(last'.nickname) /\ Len(last'.nickname) < getMinNickname)
            => OnlySetsError("NotEnoughCharacters")
       /\ (Len(last'.nickname) > getMaxNickname
             /\ ~HasForeignCharacter(last'.nickname)
             /\ ~HasForeignStart(last'.nickname))
            => OnlySetsError("TooManyCharacters")]_vars

\* an otherwise well-formed nickname that is too long was refused
C8_Witness ==
  /\ last.op = "reserveUsername"
  /\ Len(last.nickname) > getMaxNickname
  /\ ~HasForeignCharacter(last.nickname)
  /\ ~HasForeignStart(last.nickname)
  /\ username.usernameReservation.error = "TooManyCharacters"
  /\ last.abortController = NoController

\* C9: of the rules a nickname breaks, the error reported is that of the first in
\* the order too short, foreign character, foreign first character, too long.
C9_ValidationPrecedence ==
  [][ReserveUsernameStep =>
       LET nickname == last'.nickname
           error == username'.usernameReservation.error
           short == Len(nickname) < getMinNickname
       IN  /\ (0 < Len(nickname) /\ short) => error = "NotEnoughCharacters"
           /\ (~short /\ HasForeignCharacter(nickname)) => error = "CheckCharacters"
           /\ (~short /\ ~HasForeignCharacter(nickname) /\ HasForeignStart(nickname))
                => error = "CheckStartingCharacter"
           /\ (~HasForeignCharacter(nickname) /\ ~HasForeignStart(nickname)
                 /\ Len(nickname) > getMaxNickname)
                => error = "TooManyCharacters"]_vars

\* a nickname that is too long and starts with a digit is told about its start
C9_Witness ==
  /\ last.op = "reserveUsername"
  /\ Len(last.nickname) > getMaxNickname
  /\ ~HasForeignCharacter(last.nickname)
  /\ HasForeignStart(last.nickname)
  /\ username.usernameReservation.error = "CheckStartingCharacter"

\* C10: reserveUsername() with the empty nickname dispatches nothing and changes
\* neither the username state nor any reserve or confirm attempt.
C10_EmptyNicknameNoOp ==
  [][(ReserveUsernameStep /\ Len(last'.nickname) = 0) =>
       /\ last'.dispatched = <<>>
       /\ username' = username
       /\ reserveAttempts' = reserveAttempts
       /\ confirmAttempts' = confirmAttempts]_vars

\* the empty nickname was typed while an attempt was pending and an error shown
C10_Witness ==
  /\ last.op = "reserveUsername"
  /\ last.nickname = <<>>
  /\ username.usernameReservation.state = "Reserving"
  /\ username.usernameReservation.abortController # NoController
  /\ username.usernameReservation.error # UNDEF
  /\ \E c \in 1..Len(reserveAttempts) : reserveAttempts[c].phase = "sleeping"

ConfirmUsernameStep == last'.op = "confirmUsername"

\* confirmUsername() is called with the modal Open and no reservation stored
ConfirmWithoutReservation ==
  /\ ConfirmUsernameStep
  /\ username.usernameReservation.state = "Open"
  /\ username.usernameReservation.reservation = UNDEF

\* C11 as stated: confirmUsername() in Open with no reservation sets the error
\* General, leaving the state Open, and starts no remote confirm.
C11_Original ==
  [][ConfirmWithoutReservation =>
       /\ username'.usernameReservation =
            Reservation("Open", UNDEF, "General", NoController)
       /\ confirmAttempts' = confirmAttempts]_vars

\* C11: confirmUsername() in Open with no reservation never calls the remote
\* confirm; in a production build it sets the error General, leaving the state
\* Open, and in any other build assertDev throws before anything is dispatched,
\* so the state keeps the error it had.
C11_ConfirmWithoutReservation ==
  [][ConfirmWithoutReservation =>
       /\ confirmAttempts' = confirmAttempts
       /\ username'.editState = username.editState
       /\ production =>
            /\ last'.dispatched = <<setUsernameReservationError("General")>>
            /\ username'.usernameReservation =
                 Reservation("Open", UNDEF, "General", NoController)
       /\ ~production =>
            /\ last'.dispatched = <<>>
            /\ username' = username]_vars

\* a production build reported General for a confirmUsername() without reservation
C11_Witness ==
  /\ production
  /\ last.op = "confirmUsername"
  /\ last.dispatched = <<setUsernameReservationError("General")>>
  /\ username.usernameReservation = Reservation("Open", UNDEF, "General", NoController)
  /\ confirmAttempts = <<>>

ConfirmSettledStep == last'.op = "confirmSettled"

\* C12: once confirmUsername() has started the remote confirm, a successful
\* response leaves the state Closed with no reservation and no error, and a
\* failed one leaves it Open with the error General and no reservation,
\* whatever was done in between.
C12_ConfirmResponseSettles ==
  [][ConfirmSettledStep =>
       /\ Settled(last').type = "username/CONFIRM_USERNAME_FULFILLED" =>
            username'.usernameReservation =
              Reservation("Closed", UNDEF, UNDEF, NoController)
       /\ Settled(last').type = "username/CONFIRM_USERNAME_REJECTED" =>
            username'.usernameReservation =
              Reservation("Open", UNDEF, "General", NoController)]_vars

\* C13: Confirming is entered only from Open with a reservation: every
\* confirmUsername() that dispatches CONFIRM_USERNAME_PENDING or starts a remote
\* confirm is called while the state is Open with a reservation defined.
C13_ConfirmOnlyFromOpen ==
  [][(/\ ConfirmUsernameStep
      /\ \/ confirmAttempts' # confirmAttempts
         \/ \E i \in 1..Len(last'.dispatched) :
              last'.dispatched[i].type = "username/CONFIRM_USERNAME_PENDING")
      => /\ username.usernameReservation.state = "Open"
         /\ username.usernameReservation.reservation # UNDEF]_vars

\* reserve attempts in their debounce delay or awaiting doReserveUsername
OutstandingReserves ==
  {c \in 1..Len(reserveAttempts) :
     \/ reserveAttempts[c].phase = "calling"
     \/ reserveAttempts[c].phase = "sleeping" /\ ~reserveAttempts[c].aborted}

\* confirm calls awaiting doConfirmUsername
OutstandingConfirms ==
  {k \in 1..Len(confirmAttempts) : confirmAttempts[k].phase = "calling"}

ModalIdle == username.usernameReservation.state \in {"Closed", "Open"}

\* C14 as stated: whenever the state is Closed or Open no remote reserve or
\* confirm operation is outstanding, neither in its debounce delay nor awaiting
\* its response.
C14_Original ==
  ModalIdle => OutstandingReserves = {} /\ OutstandingConfirms = {}

\* C14: whenever the state is Closed or Open no reserve attempt is awaited: the
\* state stores no abortController, so no attempt still in its debounce delay or
\* awaiting its response is the one whose response would be written.
C14_NoAwaitedReserve ==
  ModalIdle =>
    /\ username.usernameReservation.abortController = NoController
    /\ \A c \in OutstandingReserves :
         c # username.usernameReservation.abortController

\* the modal was closed while a reserve call was awaiting its response
C14_Witness ==
  /\ last.op = "closeUsernameReservationModal"
  /\ last.stored # NoController
  /\ last.stored \in OutstandingReserves
  /\ reserveAttempts[last.stored].phase = "calling"
  /\ username.usernameReservation = Reservation("Closed", UNDEF, UNDEF, NoController)

\* C15: openUsernameReservationModal() followed by closeUsernameReservationModal()
\* leaves usernameReservation exactly {state: Closed}, with no error, reservation
\* or abortController, whatever the state held before, and leaves editState as
\* it was before the open.
C15_OpenCloseRoundTrip ==
  (last.op = "closeUsernameReservationModal" /\ opened.taken) =>
    /\ username.usernameReservation = Reservation("Closed", UNDEF, UNDEF, NoController)
    /\ username.editState = opened.username.editState

\* the modal was opened and closed again from a state that held a reservation,
\* with the edit state other than the initial one
C15_Witness ==
  /\ last.op = "closeUsernameReservationModal"
  /\ opened.taken
  /\ opened.username.usernameReservation.reservation # UNDEF
  /\ opened.username.editState = "ConfirmingDelete"
  /\ username.usernameReservation.state = "Closed"

\* a step of deleteUsername(): the thunk, the catch block of run(), or the
\* DELETE_USERNAME_FULFILLED that follows run()
DeleteUsernameStep == last'.op \in {"deleteUsername", "deleteFailed", "deleteSettled"}

\* C16: no step of deleteUsername() changes usernameReservation and none
\* dispatches DELETE_USERNAME_REJECTED; DELETE_USERNAME_PENDING sets editState to
\* Deleting, the completion of run() sets it back to Editing, and a failed remote
\* delete shows exactly one FailedToDeleteUsername toast before run() completes.
C16_DeleteLeavesReservation ==
  /\ [](Len(toasts) = Cardinality({d \in 1..Len(deleteAttempts) : deleteAttempts[d].failed}))
  /\ [][DeleteUsernameStep =>
          /\ username'.usernameReservation = username.usernameReservation
          /\ \A i \in 1..Len(last'.dispatched) :
               last'.dispatched[i].type # "username/DELETE_USERNAME_REJECTED"
          /\ (last'.op = "deleteUsername" /\ deleteAttempts' # deleteAttempts) =>
               /\ last'.dispatched =
                    <<Action("username/DELETE_USERNAME_PENDING", NoPayload, NoController)>>
               /\ username'.editState = "Deleting"
               /\ toasts' = toasts
          /\ last'.op = "deleteFailed" =>
               /\ last'.dispatched = <<showToast("FailedToDeleteUsername")>>
               /\ username' = username
               /\ toasts' = Append(toasts, "FailedToDeleteUsername")
          /\ last'.op = "deleteSettled" =>
               /\ last'.dispatched =
                    <<Action("username/DELETE_USERNAME_FULFILLED", NoPayload, NoController)>>
               /\ username'.editState = "Editing"
               /\ toasts' = toasts]_vars

\* a failed remote delete completed while a reserve attempt was pending: one
\* toast, editState back to Editing, the reservation still Reserving
C16_Witness ==
  /\ last.op = "deleteSettled"
  /\ \E d \in 1..Len(deleteAttempts) :
       deleteAttempts[d].failed /\ deleteAttempts[d].phase = "done"
  /\ toasts = <<"FailedToDeleteUsername">>
  /\ username.editState = "Editing"
  /\ username.usernameReservation.state = "Reserving"
  /\ username.usernameReservation.abortController # NoController

\* deleteUsername() has just been called with last'.nickname = <<me.username, option>>
DeleteUsernameCall == last'.op = "deleteUsername"

\* C17: deleteUsername() with no username in the session's conversation and none
\* as the testing option dispatches nothing, leaves editState and the rest of the
\* state as they were and never calls the remote delete; with both present the
\* remote delete is called with the session's username.
C17_DeleteWithoutUsername ==
  [][DeleteUsernameCall =>
       /\ (last'.nickname[1] \in {UNDEF, ""} /\ last'.nickname[2] \in {UNDEF, ""}) =>
            /\ last'.dispatched = <<>>
            /\ username' = username
            /\ deleteAttempts' = deleteAttempts
            /\ toasts' = toasts
       /\ (last'.nickname[1] \notin {UNDEF, ""} /\ last'.nickname[2] \notin {UNDEF, ""}) =>
            /\ Len(deleteAttempts') = Len(deleteAttempts) + 1
            /\ deleteAttempts'[Len(deleteAttempts')].username = last'.nickname[1]]_vars

\* deleteUsername() was a no-op while the editor was confirming the deletion
C17_Witness ==
  /\ last.op = "deleteUsername"
  /\ last.nickname = <<UNDEF, "">>
  /\ last.dispatched = <<>>
  /\ deleteAttempts = <<>>
  /\ username.editState = "ConfirmingDelete"

\* an operation issued by the user, as opposed to a delay or a response ending
UserOperations ==
  {"openUsernameReservationModal", "closeUsernameReservationModal",
   "setUsernameReservationError", "reserveUsername", "confirmUsername",
   "setUsernameEditState", "deleteUsername"}

UserStep == last'.op \in UserOperations

\* C18: when every remote reserve call eventually resolves or rejects and the
\* user issues no further operation, a state in Reserving eventually becomes
\* Open: it does not stay Reserving forever, and what takes it out of Reserving
\* without a user operation takes it to Open.
C18_ReservingBecomesOpen ==
  /\ []<><<UserStep>>_vars \/ <>[](username.usernameReservation.state # "Reserving")
  /\ [][(/\ ~UserStep
         /\ username.usernameReservation.state = "Reserving"
         /\ username'.usernameReservation.state # "Reserving")
        => username'.usernameReservation.state = "Open"]_vars

\* C19: an abortController is stored exactly when the state is Reserving, so a
\* response whose controller is the stored one is reduced in Reserving and the
\* assertions 'Must be reserving before resolving/rejecting reservation' hold.
C19_ControllerIffReserving ==
  /\ [](username.usernameReservation.abortController # NoController
          <=> username.usernameReservation.state = "Reserving")
  /\ [][AuthoritativeStep => username.usernameReservation.state = "Reserving"]_vars

\* SET_RESERVATION_ERROR was reduced while an attempt was pending: the
\* state is still Reserving and still stores the controller
C19_Witness ==
  /\ last.op = "setUsernameReservationError"
  /\ last.stored # NoController
  /\ username.usernameReservation.state = "Reserving"
  /\ username.usernameReservation.abortController = last.stored
  /\ username.usernameReservation.error # UNDEF

\* the last operation was a reserveUsername() that only reported a validation error
ShowsValidationError ==
  /\ last.op = "reserveUsername"
  /\ Len(last.dispatched) = 1
  /\ last.dispatched[1].type = "username/SET_RESERVATION_ERROR"

\* C20: the validation error reported by reserveUsername() with an invalid
\* nickname stays, with no reservation, until the next user operation: no
\* response of an earlier attempt still in flight overwrites it.
C20_ValidationErrorKept ==
  [][(ShowsValidationError /\ ~UserStep) =>
       /\ username'.usernameReservation.error = username.usernameReservation.error
       /\ username'.usernameReservation.reservation = UNDEF]_vars

\* a RESERVE_USERNAME_FULFILLED with an undefined payload has just been reduced
AbortedSettled(event) ==
  /\ event.op = "reserveSettled"
  /\ Settled(event).type = "username/RESERVE_USERNAME_FULFILLED"
  /\ ~Settled(event).payload.defined

\* C21: a RESERVE_USERNAME_FULFILLED with an undefined payload never carries the
\* controller the state stored when it was reduced (the PENDING that aborted its
\* attempt replaced the stored controller), so it is discarded as stale before
\* the assertion 'Payload can be undefined only when aborted'.
C21_AbortedIsStale ==
  AbortedSettled(last) =>
    /\ last.abortController # last.stored
    /\ reserveAttempts[last.abortController].aborted
    /\ ~reserveAttempts[last.abortController].called

\* an aborted attempt settled while the attempt that aborted it was still stored
C21_Witness ==
  /\ AbortedSettled(last)
  /\ last.stored # NoController
  /\ last.stored > last.abortController
  /\ username.usernameReservation.state = "Reserving"
  /\ username.usernameReservation.abortController = last.stored

\* C22: whenever a CONFIRM_USERNAME_FULFILLED or _REJECTED is reduced the state
\* is Confirming, whatever close, open and reserve operations came in between
\* (so that a failed confirm never finds a Closed state to move back to Open).
C22_ConfirmSettledInConfirming ==
  [][ConfirmSettledStep => username.usernameReservation.state = "Confirming"]_vars

\* the SHOW_UPDATE_DIALOG actions among those the last updates operation dispatched
ShowsDispatched ==
  {i \in 1..Len(lastUpdate.dispatched) :
     lastUpdate.dispatched[i].type = "updates/SHOW_UPDATE_DIALOG"}

\* C23: showEventsCount starts at 0, grows by exactly 1 with every
\* SHOW_UPDATE_DIALOG reduced and is left alone by every other action, so it is
\* always the number of SHOW_UPDATE_DIALOG actions reduced so far.
C23_ShowEventsCount ==
  /\ updates.showEventsCount = showActions
  /\ updates.showEventsCount =
       lastUpdate.before.showEventsCount + Cardinality(ShowsDispatched)
  /\ lastUpdate.op = "init" => updates.showEventsCount = 0

\* after two SHOW_UPDATE_DIALOG actions, a snooze timer fired and left the count at 2
C23_Witness ==
  /\ lastUpdate.op = "unsnoozeUpdate"
  /\ lastUpdate.before.showEventsCount = 2
  /\ updates.showEventsCount = 2
  /\ \E u \in 1..Len(updateCalls) : updateCalls[u].phase = "calling"

\* C24: dismissDialog() changes the state only when dialogType is
\* MacOS_Read_Only, and then only dialogType, to None; with any other dialogType
\* DISMISS_DIALOG returns the state as it was.
C24_DismissOnlyReadOnly ==
  lastUpdate.op = "dismissDialog" =>
    updates =
      IF lastUpdate.before.dialogType = "MacOS_Read_Only"
      THEN [lastUpdate.before EXCEPT !.dialogType = "None"]
      ELSE lastUpdate.before

\* the read-only notice was dismissed after a snooze, with a version and a count kept
C24_Witness ==
  /\ lastUpdate.op = "dismissDialog"
  /\ lastUpdate.before.dialogType = "MacOS_Read_Only"
  /\ lastUpdate.before.didSnooze
  /\ lastUpdate.before.version = "v1"
  /\ updates.dialogType = "None"
  /\ updates.didSnooze
  /\ updates.showEventsCount = 2

\* C25: snoozeUpdate() hides the dialog at once (dialogType None, didSnooze
\* true) and schedules exactly one UNSNOOZE_UPDATE, one day later, carrying the
\* dialogType shown when it was called; when that timer fires dialogType becomes
\* the captured value and didSnooze false, whatever was reduced in between.
C25_SnoozeAndUnsnooze ==
  /\ [](lastUpdate.op = "snoozeUpdate" =>
          /\ updates = [lastUpdate.before EXCEPT !.dialogType = "None", !.didSnooze = TRUE]
          /\ lastUpdate.index = Len(snoozeTimers)
          /\ snoozeTimers[lastUpdate.index] =
               [dialogType |-> lastUpdate.before.dialogType, delay |-> "DAY",
                phase |-> "pending"])
  /\ [](lastUpdate.op = "unsnoozeUpdate" =>
          /\ snoozeTimers[lastUpdate.index].phase = "fired"
          /\ lastUpdate.dispatched = Unsnooze(snoozeTimers[lastUpdate.index].dialogType)
          /\ updates =
               [lastUpdate.before EXCEPT
                  !.dialogType = snoozeTimers[lastUpdate.index].dialogType,
                  !.didSnooze = FALSE])
  /\ [][/\ Len(snoozeTimers') \in {Len(snoozeTimers), Len(snoozeTimers) + 1}
        /\ \A t \in 1..Len(snoozeTimers) :
             /\ snoozeTimers'[t].dialogType = snoozeTimers[t].dialogType
             /\ snoozeTimers[t].phase = "fired" => snoozeTimers'[t].phase = "fired"]_vars

\* the timer fired after startUpdate() had failed: the snoozed AutoUpdate dialog
\* replaced the Cannot_Update one
C25_Witness ==
  /\ lastUpdate.op = "unsnoozeUpdate"
  /\ snoozeTimers[lastUpdate.index].dialogType = "AutoUpdate"
  /\ lastUpdate.before.dialogType = "Cannot_Update"
  /\ updates.dialogType = "AutoUpdate"
  /\ ~updates.didSnooze

\* C26: startUpdate() dispatches START_UPDATE (dialogType None, didSnooze false)
\* and then calls the update IPC; when the call fails it dispatches exactly one
\* SHOW_UPDATE_DIALOG with Cannot_Update and no options, which adds 1 to
\* showEventsCount, and when the call succeeds it dispatches nothing more.
C26_StartUpdate ==
  /\ lastUpdate.op = "startUpdate" =>
       /\ lastUpdate.dispatched = <<UpdatesAction("updates/START_UPDATE", UNDEF, NoOptions)>>
       /\ updates = [lastUpdate.before EXCEPT !.dialogType = "None", !.didSnooze = FALSE]
       /\ lastUpdate.index = Len(updateCalls)
       /\ updateCalls[lastUpdate.index].phase = "calling"
  /\ lastUpdate.op = "startUpdateRejected" =>
       /\ lastUpdate.dispatched =
            <<UpdatesAction("updates/SHOW_UPDATE_DIALOG", "Cannot_Update", NoOptions)>>
       /\ updates =
            [lastUpdate.before EXCEPT
               !.dialogType = "Cannot_Update",
               !.showEventsCount = lastUpdate.before.showEventsCount + 1]
  /\ lastUpdate.op = "startUpdateResolved" =>
       /\ lastUpdate.dispatched = <<>>
       /\ updates = lastUpdate.before

\* the IPC call failed after another dialog with a version had been shown
C26_Witness ==
  /\ lastUpdate.op = "startUpdateRejected"
  /\ lastUpdate.before.dialogType = "AutoUpdate"
  /\ lastUpdate.before.version = "v1"
  /\ lastUpdate.before.showEventsCount = 1
  /\ updates.dialogType = "Cannot_Update"
  /\ updates.version = "v1"
  /\ updates.showEventsCount = 2

\* startUpdate() was called and no SHOW_UPDATE_DIALOG has been reduced since
StartedAndNotShownSince ==
  \E u \in 1..Len(updateCalls) : updateCalls[u].shows = showActions

\* C27: once startUpdate() has dispatched START_UPDATE the dialog stays hidden
\* (dialogType None) until a SHOW_UPDATE_DIALOG is reduced: the timer of an
\* earlier snoozeUpdate() does not bring the snoozed dialog back.
C27_HiddenAfterStart ==
  StartedAndNotShownSince => updates.dialogType = "None"

\* the positions in jobs.calls of the streamJobs() calls on `queue`
StreamCalls(queue) ==
  {i \in 1..Len(jobs.calls) :
     jobs.calls[i] = [call |-> "streamJobs", queue |-> queue]}

\* initializeAllJobQueues() has returned
JobQueuesInitialized == jobs.pc > Len(Statements)

\* C28: initializeAllJobQueues() initializes reportSpamJobQueue before it starts
\* that queue's job stream, and starts the job stream of each of the ten queues
\* exactly once, without waiting for a stream to end: all ten are started even
\* when no stream ever ends.
C28_AllQueuesStarted ==
  /\ [](\A i \in StreamCalls("reportSpamJobQueue") :
          \E j \in 1..(i - 1) :
            jobs.calls[j] = [call |-> "initialize", queue |-> "reportSpamJobQueue"])
  /\ [](\A queue \in JobQueues : Cardinality(StreamCalls(queue)) <= 1)
  /\ [](JobQueuesInitialized =>
          /\ Cardinality(JobQueues) = 10
          /\ \A queue \in JobQueues : Cardinality(StreamCalls(queue)) = 1)
  /\ <>(JobQueuesInitialized /\ Streaming = JobQueues)

\* every queue was started although no stream has ended
C28_Witness ==
  /\ JobQueuesInitialized
  /\ Streaming = JobQueues
  /\ jobs.ended = {}

\* C29: the measurement loop opens a conversation exactly RUN_COUNT +
\* DISCARD_COUNT times, the first contact on even and the second on odd runId,
\* and keeps the delta of the runs with runId >= DISCARD_COUNT only, so the list
\* handed to stats() has exactly RUN_COUNT entries.
C29_MeasurementLoop ==
  /\ Len(bench.clicks) <= bench.RUN_COUNT + bench.DISCARD_COUNT
  /\ \A i \in 1..Len(bench.clicks) :
       bench.clicks[i] = IF i % 2 = 1 THEN "first" ELSE "second"
  /\ Len(bench.deltaList) =
       IF bench.runId > bench.DISCARD_COUNT THEN bench.runId - bench.DISCARD_COUNT ELSE 0
  /\ bench.statsCalls # <<>> =>
       /\ Len(bench.statsCalls) = 1
       /\ Len(bench.clicks) = bench.RUN_COUNT + bench.DISCARD_COUNT
       /\ Len(bench.statsCalls[1]) = bench.RUN_COUNT

\* stats() was called after a run of five openings, the first two discarded
C29_Witness ==
  /\ bench.pc = "done"
  /\ bench.RUN_COUNT = 3
  /\ bench.DISCARD_COUNT = 2
  /\ bench.clicks = <<"first", "second", "first", "second", "first">>
  /\ Len(bench.statsCalls) = 1
  /\ Len(bench.statsCalls[1]) = 3

====
